---- MODULE Spec2Model ----
(***************************************************************************)
(* A model of mamachanko/adp: the process pass (cmd/process.go:            *)
(* processPDFs, ensureUniqueFilename) and the download run                 *)
(* (cmd/download.go: downloadPDFs with its polling waits waitForElement    *)
(* and waitForText and its cookie bridge, findPDFLinks, downloadFile).     *)
(*                                                                         *)
(* Strings are sequences of tokens (a file name is <<"adp_", "1", ".pdf">>,*)
(* a text is a sequence of labels, words and numbers), so that Sprintf is  *)
(* concatenation and a regular expression is a scan for a label token      *)
(* followed by the tokens of its groups.  German umlauts are written out   *)
(* (ue for u-umlaut) in the string literals.                               *)
(***************************************************************************)
EXTENDS Integers, Sequences, FiniteSets, TLC

VARIABLES
    fs,         \* the directory pdfPath: file name -> file (id, readable, text)
    pc,         \* position of processPDFs: "idle", "loop"
    dryRun,     \* processPDFs' parameter dryRun
    pdfFiles,   \* the result of filepath.Glob (process.go:53)
    idx,        \* the loop index i of process.go:76, 1-based: next file to process
    log,        \* the rename decisions logged by the running pass
    fs0,        \* history: the directory when the running pass started
    passes,     \* history: the completed passes, in order
    dpc,        \* position of downloadPDFs
    pages,      \* the portal: the listing pages, each the anchors of its markup
    lastControl, \* the portal: the next-page control on the last page
    sticky,     \* the portal: a click on the enabled control may leave the page shown
    shown,      \* the browser: the listing page displayed
    stuck,      \* the browser: clicks so far that did not change the page shown
    pdfLinks,   \* findPDFLinks' pdfLinks, then downloadPDFs' pdfLinks
    currentPage, \* findPDFLinks' currentPage
    visited,    \* history: the pages whose markup was read, in order
    clicks,     \* history: the successful clicks on the next-page control
    di,         \* the loop index i of download.go:383, 1-based
    gets,       \* history: the GETs issued, in order
    disk,       \* the directory downloadPath: placeholder number -> content
    result,     \* what downloadPDFs returned
    trail,      \* history: the steps of downloadPDFs that succeeded, in order
    runExpired, \* the deadline of the run (download.go:219) has expired
    allCookies, \* the browser: the cookies network.GetCookies reports
    jar,        \* the cookies handed to the jar of the HTTP client
    wpc,        \* position of waitForElement / waitForText: "idle" when not called
    wkind,      \* the wait called: "element" or "text"
    wvalid,     \* waitForText's pattern compiles
    waitExpired, \* the timeout of the wait (timeoutCtx) has expired
    polls,      \* evaluations of the running wait so far
    lastEval,   \* what the last evaluation of the wait produced
    wres        \* what the wait returned: "ok", "timeout", "invalid"

pvars == <<fs, pc, dryRun, pdfFiles, idx, log, fs0, passes>>

portalVars == <<pages, lastControl, sticky, allCookies>>

waitVars == <<wpc, wkind, wvalid, waitExpired, polls, lastEval, wres>>

linkVars == <<shown, stuck, pdfLinks, currentPage, visited, clicks>>

getVars == <<di, gets, disk>>

dvars == <<dpc, result, trail, runExpired, jar, portalVars, waitVars, linkVars, getVars>>

vars == <<pvars, dvars>>

----------------------------------------------------------------------------
(* Bounds *)

\* placeholder files adp_1.pdf .. adp_MaxFiles.pdf a directory may start with
MaxFiles == 2
\* invocations of the process command in one behaviour
MaxPasses == 2
\* segments (label with its groups) a text of SpecClassify is built from
MaxSegs == 3

----------------------------------------------------------------------------
(* Tokens of the extracted texts and the regular expressions of process.go *)

TaxLabel == "Ausdruck der elektronischen Lohnsteuerbescheinigung fuer"
SocLabel == "Meldebescheinigung zur Sozialversicherung"
PayLabel == "Verdienstabrechnung"
BillLabel == "Abrechnungsmonat:"
RueckLabel == "Rueckrechnung:"

\* \d{4}
IsYear(tok) == tok \in {"2022", "2023", "2024"}

\* [A-Za-z...]+ : a run of letters.  "Verdienstabrechnung" is one.
IsWord(tok) == tok \in {"Januar", "Dezember", "Maerz", "Verdienstabrechnung"}

Min(S) == CHOOSE x \in S : \A y \in S : x <= y

\* taxCertRegex.FindStringSubmatch(text): the leftmost match, <<whole, year>>
taxCertRegex(text) ==
    LET S == {i \in 1..(Len(text) - 1) : text[i] = TaxLabel /\ IsYear(text[i + 1])}
    IN  IF S = {} THEN <<>>
        ELSE LET i == Min(S) IN <<SubSeq(text, i, i + 1), text[i + 1]>>

\* socialInsuranceRegex.MatchString(text)
socialInsuranceRegex(text) == \E i \in 1..Len(text) : text[i] = SocLabel

\* payslipRegex.MatchString(text)
payslipRegex(text) == \E i \in 1..Len(text) : text[i] = PayLabel

LabelWordYear_Rightmost(label, text) ==
    LET S == {i \in 1..(Len(text) - 2) :
                 text[i] = label /\ IsWord(text[i + 1]) /\ IsYear(text[i + 2])}
    IN  IF S = {} THEN <<>>
        ELSE LET i == CHOOSE x \in S : \A y \in S : y <= x
             IN  <<SubSeq(text, i, i + 2), text[i + 1], text[i + 2]>>

\* label:?\s*([A-Za-z...]+)\s+(\d{4}) : leftmost match, <<whole, month, year>>
LabelWordYear(label, text) ==
    LET S == {i \in 1..(Len(text) - 2) :
                 text[i] = label /\ IsWord(text[i + 1]) /\ IsYear(text[i + 2])}
    IN  IF S = {} THEN <<>>
        ELSE LET i == Min(S) IN <<SubSeq(text, i, i + 2), text[i + 1], text[i + 2]>>

rueckrechnungRegex(text) == LabelWordYear(RueckLabel, text)

abrechnungsmonatRegex(text) == LabelWordYear(BillLabel, text)

----------------------------------------------------------------------------
(* File names *)

\* filepath.Ext: the suffix beginning at the final dot
Ext(path) ==
    IF Len(path) > 0 /\ path[Len(path)] \in {".pdf"} THEN <<path[Len(path)]>> ELSE <<>>

\* os.Stat(path) does not report IsNotExist
Exists(dir, path) == path \in DOMAIN dir

ensureUniqueFilename_NextFree(dir, path) ==
    IF ~Exists(dir, path) THEN path
    ELSE LET ext == Ext(path)
             basePath == SubSeq(path, 1, Len(path) - Len(ext))
         IN  IF Exists(dir, basePath \o <<"_2">> \o ext)
             THEN basePath \o <<"_3">> \o ext
             ELSE basePath \o <<"_2">> \o ext

ensureUniqueFilename_AfterExt(dir, path) ==
    IF ~Exists(dir, path) THEN path ELSE path \o <<"_2">>

ensureUniqueFilename(dir, path) ==
    IF ~Exists(dir, path) THEN path
    ELSE LET ext == Ext(path)
             basePath == SubSeq(path, 1, Len(path) - Len(ext))
         IN  basePath \o <<"_2">> \o ext

\* os.Rename(old, new): new is replaced when it exists
Rename(dir, old, new) ==
    [n \in (DOMAIN dir \ {old}) \cup {new} |-> IF n = new THEN dir[old] ELSE dir[n]]

\* byte order of the tokens file names are made of
TokenOrder ==
    <<" ", " - Rueckrechnung", ".pdf", "1", "2", "2022", "2023", "2024", "3", "4", "5",
      "Dezember", "Januar", "Lohnsteuerbescheinigung - ", "Maerz",
      "Meldebescheinigung zur Sozialversicherung - ", "Verdienstabrechnung",
      "Verdienstabrechnung - ", "_2", "adp_">>

TokenRank(tok) == Min({i \in 1..Len(TokenOrder) : TokenOrder[i] = tok})

RECURSIVE NameLess(_, _)
NameLess(a, b) ==
    IF b = <<>> THEN FALSE
    ELSE IF a = <<>> THEN TRUE
    ELSE IF Head(a) = Head(b) THEN NameLess(Tail(a), Tail(b))
    ELSE TokenRank(Head(a)) < TokenRank(Head(b))

RECURSIVE SortNames(_)
SortNames(S) ==
    IF S = {} THEN <<>>
    ELSE LET m == CHOOSE x \in S : \A y \in S \ {x} : NameLess(x, y)
         IN  <<m>> \o SortNames(S \ {m})

\* filepath.Glob(pdfPath/*.pdf): the matching names, sorted
Glob(dir) == SortNames({n \in DOMAIN dir : Ext(n) = <<".pdf">>})

----------------------------------------------------------------------------
(* processPDFs *)

\* process.go:92-93: the name of a tax certificate
TaxName(matches) == <<"Lohnsteuerbescheinigung - ", matches[2], ".pdf">>

\* process.go:118-120: the name of a social insurance certificate
SocialName(monthYearMatches) ==
    <<"Meldebescheinigung zur Sozialversicherung - ", monthYearMatches[2], " ",
      monthYearMatches[3], ".pdf">>

PayslipBranch_BillingOnly(text, monthYearMatches) ==
    [kind |-> "payslip", rueck |-> FALSE,
     proposed |-> <<"Verdienstabrechnung - ", monthYearMatches[2], " ",
                    monthYearMatches[3], ".pdf">>]

\* process.go:150-164: the name of a payslip whose billing month was found
PayslipBranch(text, monthYearMatches) ==
    LET rueckrechnungMatches == rueckrechnungRegex(text)
    IN  IF Len(rueckrechnungMatches) > 2
        THEN [kind |-> "payslip", rueck |-> TRUE,
              proposed |-> <<"Verdienstabrechnung - ", rueckrechnungMatches[2], " ",
                             rueckrechnungMatches[3], " - Rueckrechnung", ".pdf">>]
        ELSE [kind |-> "payslip", rueck |-> FALSE,
              proposed |-> <<"Verdienstabrechnung - ", monthYearMatches[2], " ",
                             monthYearMatches[3], ".pdf">>]

NoRename(kind) == [kind |-> kind, rueck |-> FALSE, proposed |-> <<>>]

Classify_SocialFallsThrough(text) ==
    IF Len(taxCertRegex(text)) > 1
    THEN [kind |-> "tax", rueck |-> FALSE, proposed |-> TaxName(taxCertRegex(text))]
    ELSE IF socialInsuranceRegex(text) /\ Len(abrechnungsmonatRegex(text)) > 2
    THEN [kind |-> "social", rueck |-> FALSE,
          proposed |-> SocialName(abrechnungsmonatRegex(text))]
    ELSE IF payslipRegex(text)
    THEN IF Len(abrechnungsmonatRegex(text)) > 2
         THEN PayslipBranch(text, abrechnungsmonatRegex(text))
         ELSE NoRename("payslip_no_period")
    ELSE IF socialInsuranceRegex(text) THEN NoRename("social_no_period")
    ELSE NoRename("unrecognized")

Classify_PayslipBeforeSocial(text) ==
    IF Len(taxCertRegex(text)) > 1
    THEN [kind |-> "tax", rueck |-> FALSE, proposed |-> TaxName(taxCertRegex(text))]
    ELSE IF payslipRegex(text)
    THEN IF Len(abrechnungsmonatRegex(text)) > 2
         THEN PayslipBranch(text, abrechnungsmonatRegex(text))
         ELSE NoRename("payslip_no_period")
    ELSE IF socialInsuranceRegex(text)
    THEN IF Len(abrechnungsmonatRegex(text)) > 2
         THEN [kind |-> "social", rueck |-> FALSE,
               proposed |-> SocialName(abrechnungsmonatRegex(text))]
         ELSE NoRename("social_no_period")
    ELSE NoRename("unrecognized")

Classify_PayslipFirst(text) ==
    IF payslipRegex(text) /\ Len(abrechnungsmonatRegex(text)) > 2
    THEN PayslipBranch(text, abrechnungsmonatRegex(text))
    ELSE IF Len(taxCertRegex(text)) > 1
    THEN [kind |-> "tax", rueck |-> FALSE, proposed |-> TaxName(taxCertRegex(text))]
    ELSE IF socialInsuranceRegex(text)
    THEN IF Len(abrechnungsmonatRegex(text)) > 2
         THEN [kind |-> "social", rueck |-> FALSE,
               proposed |-> SocialName(abrechnungsmonatRegex(text))]
         ELSE NoRename("social_no_period")
    ELSE IF payslipRegex(text) THEN NoRename("payslip_no_period")
    ELSE NoRename("unrecognized")

\* the branch of the if/else-if chain of process.go:89-193 a text takes, with
\* the name Sprintf builds (<<>>: no rename is proposed)
Classify(text) ==
    LET matches == taxCertRegex(text)
    IN  IF Len(matches) > 1
        THEN [kind |-> "tax", rueck |-> FALSE, proposed |-> TaxName(matches)]
        ELSE IF socialInsuranceRegex(text)
        THEN LET monthYearMatches == abrechnungsmonatRegex(text)
             IN  IF Len(monthYearMatches) > 2
                 THEN [kind |-> "social", rueck |-> FALSE,
                       proposed |-> SocialName(monthYearMatches)]
                 ELSE NoRename("social_no_period")
        ELSE IF payslipRegex(text)
        THEN LET monthYearMatches == abrechnungsmonatRegex(text)
             IN  IF Len(monthYearMatches) > 2
                 THEN PayslipBranch(text, monthYearMatches)
                 ELSE NoRename("payslip_no_period")
        ELSE NoRename("unrecognized")

\* extractTextFromPDF(path) returns an error
ExtractFails(dir, path) == ~Exists(dir, path) \/ ~dir[path].readable

RenameUnlessDry_FailureRemoves(dir, dry, renameOk, old, new) ==
    IF dry THEN dir
    ELSE IF renameOk THEN Rename(dir, old, new)
    ELSE [n \in DOMAIN dir \ {old} |-> dir[n]]

RenameUnlessDry_IgnoreDry(dir, dry, renameOk, old, new) ==
    IF renameOk THEN Rename(dir, old, new) ELSE dir

\* process.go:105-113: the directory after the rename, or after its log line
RenameUnlessDry(dir, dry, renameOk, old, new) ==
    IF dry THEN dir
    ELSE IF renameOk THEN Rename(dir, old, new) ELSE dir

\* processPDFs is called: the directory is listed once
StartPass(d) ==
    /\ pc = "idle"
    /\ Len(passes) < MaxPasses
    /\ dryRun' = d
    /\ pdfFiles' = Glob(fs)
    /\ idx' = 1
    /\ log' = <<>>
    /\ fs0' = fs
    /\ pc' = "loop"
    /\ UNCHANGED <<fs, passes, dvars>>

\* what one iteration logs about its file; text is what was extracted
LogEntry(pdfFile, text, c, newPath, outcome) ==
    [filename |-> pdfFile, text |-> text, kind |-> c.kind, rueck |-> c.rueck,
     proposed |-> c.proposed, new_filename |-> newPath, outcome |-> outcome]

\* one iteration of the loop of process.go:76-194
ProcessFile ==
    /\ pc = "loop"
    /\ idx <= Len(pdfFiles)
    /\ idx' = idx + 1
    /\ LET pdfFile == pdfFiles[idx] IN
       IF ExtractFails(fs, pdfFile)
       THEN /\ log' = Append(log, LogEntry(pdfFile, <<>>, NoRename("extract_failed"),
                                           <<>>, "skipped"))
            /\ fs' = fs
       ELSE LET text == fs[pdfFile].text
                c == Classify(text)
            IN  IF c.proposed = <<>>
                THEN /\ log' = Append(log, LogEntry(pdfFile, text, c, <<>>, "left"))
                     /\ fs' = fs
                ELSE LET newPath == ensureUniqueFilename(fs, c.proposed) IN
                     \E renameOk \in BOOLEAN :
                        /\ fs' = RenameUnlessDry(fs, dryRun, renameOk, pdfFile, newPath)
                        /\ log' = Append(log, LogEntry(pdfFile, text, c, newPath,
                                            IF dryRun THEN "would_rename"
                                            ELSE IF renameOk THEN "renamed"
                                            ELSE "rename_failed"))
    /\ UNCHANGED <<pc, dryRun, pdfFiles, fs0, passes, dvars>>

\* processPDFs returns nil (process.go:196)
ReturnPass ==
    /\ pc = "loop"
    /\ idx > Len(pdfFiles)
    /\ pc' = "idle"
    /\ passes' = Append(passes, [dry |-> dryRun, before |-> fs0, after |-> fs,
                                 files |-> pdfFiles, log |-> log])
    /\ UNCHANGED <<fs, dryRun, pdfFiles, idx, log, fs0, dvars>>

----------------------------------------------------------------------------
(* Directories and texts the process pass starts from *)

\* fmt.Sprintf("adp_%d.pdf", i+1), the name the download gives the i-th file
Placeholder(k) == <<"adp_", ToString(k), ".pdf">>

JanuarName == <<"Verdienstabrechnung - ", "Januar", " ", "2024", ".pdf">>

InitNames == {Placeholder(k) : k \in 1..MaxFiles} \cup {JanuarName}

\* a payslip for January 2024, a tax certificate, a text no rule matches
SomeTexts ==
    {<<PayLabel, BillLabel, "Januar", "2024">>, <<TaxLabel, "2023">>, <<"Hinweise">>}

Contents(texts) ==
    [readable : {TRUE}, text : texts] \cup {[readable |-> FALSE, text |-> <<>>]}

\* every file carries the name it had at the start, to tell files apart
Dirs(names, texts) ==
    UNION {{[n \in S |-> [origin |-> n, readable |-> f[n].readable, text |-> f[n].text]] :
               f \in [S -> Contents(texts)]} : S \in SUBSET names}

Segments ==
    {<<TaxLabel, "2022">>, <<TaxLabel, "2023">>, <<TaxLabel>>, <<SocLabel>>, <<PayLabel>>,
     <<BillLabel, "Januar", "2024">>, <<BillLabel, "Maerz", "2023">>, <<BillLabel, "Januar">>,
     <<RueckLabel, "Dezember", "2023">>, <<RueckLabel, "Januar", "2024">>}

\* the sequences of at most n different segments
RECURSIVE Arrangements(_)
Arrangements(n) ==
    IF n = 0 THEN {<<>>}
    ELSE LET T == Arrangements(n - 1)
         IN  T \cup UNION {{Append(t, s) : s \in {x \in Segments :
                                                    \A i \in 1..Len(t) : t[i] # x}} :
                            t \in T}

RECURSIVE Flatten(_)
Flatten(segs) == IF segs = <<>> THEN <<>> ELSE Head(segs) \o Flatten(Tail(segs))

\* the texts made of at most n different segments, in any order
TextsOf(n) == {Flatten(a) : a \in Arrangements(n)}

\* downloadPDFs has not been called
NoRun ==
    /\ dpc = "off"
    /\ allCookies = <<>>
    /\ jar = <<>>
    /\ trail = <<>>
    /\ pages = <<>>
    /\ lastControl = "absent"
    /\ sticky = FALSE
    /\ shown = 1
    /\ stuck = 0
    /\ pdfLinks = <<>>
    /\ currentPage = 1
    /\ visited = <<>>
    /\ clicks = 0
    /\ di = 1
    /\ gets = <<>>
    /\ disk = <<>>
    /\ result = [stage |-> "none", link |-> <<>>]

\* no wait is in progress
NoWait ==
    /\ wpc = "idle"
    /\ wkind = "element"
    /\ wvalid = TRUE
    /\ waitExpired = FALSE
    /\ polls = 0
    /\ lastEval = "none"
    /\ wres = "none"

\* no download run is in progress
NoDownload ==
    /\ NoWait
    /\ runExpired = FALSE
    /\ NoRun

InitPass(dirs) ==
    /\ NoDownload
    /\ fs \in dirs
    /\ pc = "idle"
    /\ dryRun = FALSE
    /\ pdfFiles = <<>>
    /\ idx = 1
    /\ log = <<>>
    /\ fs0 = fs
    /\ passes = <<>>

Init == InitPass(Dirs(InitNames, SomeTexts))

Next ==
    \/ \E d \in BOOLEAN : StartPass(d)
    \/ ProcessFile
    \/ ReturnPass

Spec == Init /\ [][Next]_vars

\* texts that hold the phrase of a rule together with the payslip phrase, a
\* billing month and a correction marker for another month
FullTexts ==
    {<<l, PayLabel, BillLabel, "Maerz", "2023", RueckLabel, "Dezember", "2023">> :
        l \in {SocLabel, "Hinweise"}}

\* one downloaded file with any text, to settle what a text is classified as
InitClassify ==
    InitPass(Dirs({Placeholder(1)}, TextsOf(MaxSegs) \cup FullTexts) \ {<<>>})

SpecClassify == InitClassify /\ [][Next]_vars

----------------------------------------------------------------------------
(* The portal and the browser *)

\* listing pages a portal may have
MaxPages == 2
\* clicks that leave the page shown unchanged before the run's deadline expires
MaxStuck == 1
\* cookies the browser may hold when they are read
MaxCookies == 2
\* polling intervals that fit into the timeout of one wait (30 s / 500 ms in
\* the calls of downloadPDFs)
MaxPolls == 3

\* the default of the --url flag (download.go:61)
siteURL == "https://adpworld.adp.com"

DocDownloadPath == "/AdpwAdpaWeb/DocDownload"

Anchor(href) == [hasHref |-> TRUE, href |-> href]

RelativeDoc == Anchor(<<DocDownloadPath, "?doc=1">>)
AbsoluteDoc == Anchor(<<"https://adpworld.adp.com", DocDownloadPath, "?doc=2">>)
PlainHttpDoc == Anchor(<<"http://adpworld.adp.com", DocDownloadPath, "?doc=3">>)
HelpLink == Anchor(<<"/AdpwAdpaWeb/Help">>)
NamedAnchor == [hasHref |-> FALSE, href |-> <<>>]

\* the markup of a listing page: its anchors in document order
PageMenu ==
    {<<>>,
     <<RelativeDoc>>,
     <<HelpLink, RelativeDoc, AbsoluteDoc>>,
     <<AbsoluteDoc, NamedAnchor, PlainHttpDoc>>}

RECURSIVE SeqsUpTo(_, _)
SeqsUpTo(S, n) ==
    IF n = 0 THEN {<<>>}
    ELSE LET T == SeqsUpTo(S, n - 1) IN T \cup {Append(t, x) : t \in T, x \in S}

\* the next-page control as the page shown renders it
NextControl == IF shown >= Len(pages) THEN lastControl ELSE "enabled"

\* a cookie as network.GetCookies reports it
BrowserCookie(name, value, domain, httpOnly) ==
    [name |-> name, value |-> value, domain |-> domain, httpOnly |-> httpOnly]

\* a session cookie of the portal host, one of the parent domain, a tracking
\* cookie, an allow-listed name set by another site, a name that differs from
\* an allow-listed one in case only
CookieMenu ==
    {BrowserCookie("SERVERSESSIONID", "s1", "adpworld.adp.com", TRUE),
     BrowserCookie("EMEASMSESSION", "e1", ".adp.com", TRUE),
     BrowserCookie("_ga", "t1", ".adp.com", FALSE),
     BrowserCookie("SERVERSESSIONID", "x9", "ads.example.com", FALSE),
     BrowserCookie("jsessionidsso", "j1", "adpworld.adp.com", TRUE)}

----------------------------------------------------------------------------
(* waitForElement, waitForText *)

\* the steps of downloadPDFs that are calls of waitForElement or waitForText
IsWaitStep(step) == step \in {"wait_username", "wait_password", "wait_dashboard"}

\* download.go:229, 259: waitForElement; download.go:293: waitForText
WaitKind(step) == IF step = "wait_dashboard" THEN "text" ELSE "element"

ctxDone_OwnTimeoutOnly(waitExp, runExp) == waitExp

\* <-timeoutCtx.Done(): the context of the wait is derived from the caller's,
\* it is done when its own timeout or the caller's deadline has expired
ctxDone(waitExp, runExp) == waitExp \/ runExp

\* what chromedp.Run(timeoutCtx, chromedp.Evaluate(...)) can produce: the
\* condition observed true or false, an error of the browser, the error of
\* the expired context
EvalOutcomes == {"true", "false", "error", "deadline"}

\* err != nil
EvalFailed(outcome) == outcome \in {"error", "deadline"}

IsDeadlineExceeded_AnyError(outcome) == outcome \in {"error", "deadline"}

\* strings.Contains(err.Error(), "context deadline exceeded")
IsDeadlineExceeded(outcome) == outcome = "deadline"

Satisfied_NotChecked(outcome) == outcome \in {"true", "false"}

\* `visible` of waitForElement, regex.MatchString(pageText) of waitForText
Satisfied(outcome) == outcome = "true"

----------------------------------------------------------------------------
(* The steps of downloadPDFs *)

Result(stage, link) == [stage |-> stage, link |-> link]

\* the browser-driven steps of download.go:222-334, in order
BrowserSteps ==
    <<"navigate", "wait_username", "input_username", "wait_password", "input_password",
      "wait_dashboard", "open_documents", "get_cookies">>

StepAfter(step) ==
    LET i == CHOOSE k \in 1..Len(BrowserSteps) : BrowserSteps[k] = step
    IN  IF i < Len(BrowserSteps) THEN BrowserSteps[i + 1] ELSE "install_cookies"

\* the wait returns res to its caller; in a download run downloadPDFs goes on
\* to the next step after nil and returns the error otherwise
WaitReturns(res) ==
    /\ wres' = res
    /\ wpc' = "idle"
    /\ IF IsWaitStep(dpc)
       THEN IF res = "ok"
            THEN dpc' = StepAfter(dpc) /\ trail' = Append(trail, dpc) /\ result' = result
            ELSE dpc' = "failed" /\ result' = Result(dpc, <<>>) /\ trail' = trail
       ELSE UNCHANGED <<dpc, trail, result>>

\* waitForElement or waitForText is called (download.go:80-87, 130-145): by
\* downloadPDFs with its fixed pattern, or by any caller with any arguments.
\* waitForText returns at once when the pattern does not compile
WaitStart(kind, valid) ==
    /\ wpc = "idle"
    /\ \/ IsWaitStep(dpc) /\ kind = WaitKind(dpc) /\ valid
       \/ dpc = "off"
    /\ wkind' = kind
    /\ wvalid' = valid
    /\ waitExpired' = FALSE
    /\ polls' = 0
    /\ lastEval' = "none"
    /\ IF kind = "text" /\ ~valid
       THEN WaitReturns("invalid")
       ELSE wpc' = "check" /\ wres' = "none" /\ UNCHANGED <<dpc, trail, result>>
    /\ UNCHANGED <<runExpired, jar, portalVars, linkVars, getVars, pvars>>

\* the select of download.go:91-97 and 148-154
WaitCheck ==
    /\ wpc = "check"
    /\ IF ctxDone(waitExpired, runExpired)
       THEN WaitReturns("timeout")
       ELSE wpc' = "eval" /\ UNCHANGED <<wres, dpc, trail, result>>
    /\ UNCHANGED <<wkind, wvalid, waitExpired, polls, lastEval, runExpired, jar,
                   portalVars, linkVars, getVars, pvars>>

\* the evaluation of download.go:99-122 and 156-176 and what is done with its
\* result.  Time passes during the call: a deadline that expires aborts it
\* with the error of the context, and no other call ends with that error
WaitEvaluate ==
    /\ wpc = "eval"
    /\ \E outcome \in EvalOutcomes, we \in BOOLEAN, re \in BOOLEAN :
          /\ waitExpired' = (waitExpired \/ we)
          /\ runExpired' = (runExpired \/ re)
          /\ (outcome = "deadline") <=> (waitExpired' \/ runExpired')
          /\ lastEval' = outcome
          /\ polls' = polls + 1
          /\ IF EvalFailed(outcome)
             THEN IF IsDeadlineExceeded(outcome)
                  THEN WaitReturns("timeout")
                  ELSE wpc' = "sleep" /\ UNCHANGED <<wres, dpc, trail, result>>
             ELSE IF Satisfied(outcome)
                  THEN WaitReturns("ok")
                  ELSE wpc' = "sleep" /\ UNCHANGED <<wres, dpc, trail, result>>
    /\ UNCHANGED <<wkind, wvalid, jar, portalVars, linkVars, getVars, pvars>>

\* time.Sleep(500 * time.Millisecond) (download.go:113, 125, 167, 179): it is
\* not interrupted; after MaxPolls intervals the timeout of the wait is over
WaitSleep ==
    /\ wpc = "sleep"
    /\ wpc' = "check"
    /\ \E we \in BOOLEAN, re \in BOOLEAN :
          /\ waitExpired' = (waitExpired \/ we \/ polls >= MaxPolls)
          /\ runExpired' = (runExpired \/ re)
    /\ UNCHANGED <<wkind, wvalid, polls, lastEval, wres, dpc, trail, result, jar,
                   portalVars, linkVars, getVars, pvars>>

----------------------------------------------------------------------------
(* downloadPDFs, findPDFLinks, downloadFile *)

\* a call chromedp.Run(ctx, ...) of downloadPDFs or findPDFLinks: it fails when
\* the deadline of the run (download.go:219) has expired, and time passes
BrowserCall(ok) ==
    /\ runExpired => ~ok
    /\ runExpired' \in {runExpired, TRUE}

\* one step of the browser-driven phase that is not a wait: it succeeds, or
\* downloadPDFs returns its error
BrowserStep ==
    /\ \E k \in 1..Len(BrowserSteps) : BrowserSteps[k] = dpc
    /\ ~IsWaitStep(dpc)
    /\ \E ok \in BOOLEAN :
          /\ BrowserCall(ok)
          /\ IF ok
             THEN dpc' = StepAfter(dpc) /\ result' = result /\ trail' = Append(trail, dpc)
             ELSE dpc' = "failed" /\ result' = Result(dpc, <<>>) /\ trail' = trail
    /\ UNCHANGED <<jar, portalVars, waitVars, linkVars, getVars, pvars>>

\* download.go:351-356
essentialCookieNames ==
    <<"BIGipServer_DE1_world-v2", "SERVERSESSIONID", "JSESSIONIDSSO", "EMEASMSESSION">>

IsEssential_Everything(name) == TRUE

\* the inner loop of download.go:359-368
IsEssential(name) ==
    \E i \in 1..Len(essentialCookieNames) : essentialCookieNames[i] = name

\* download.go:361-365: name, value and domain are copied, nothing else
HttpCookie(c) == [name |-> c.name, value |-> c.value, domain |-> c.domain]

\* download.go:358-369: the cookies handed to the jar, in the browser's order
RECURSIVE EssentialCookies(_)
EssentialCookies(cs) ==
    IF cs = <<>> THEN <<>>
    ELSE (IF IsEssential(Head(cs).name) THEN <<HttpCookie(Head(cs))>> ELSE <<>>)
             \o EssentialCookies(Tail(cs))

\* download.go:337-372: the client is built and client.Jar.SetCookies is called
\* once, with the filtered cookies
InstallCookies ==
    /\ dpc = "install_cookies"
    /\ jar' = EssentialCookies(allCookies)
    /\ dpc' = "read_page"
    /\ trail' = Append(trail, dpc)
    /\ UNCHANGED <<result, runExpired, portalVars, waitVars, linkVars, getVars, pvars>>

\* strings.Contains(href, "/AdpwAdpaWeb/DocDownload")
ContainsDocDownload(href) == \E i \in 1..Len(href) : href[i] = DocDownloadPath

\* download.go:430-435: the hrefs of the anchors that match, in document order
RECURSIVE PageLinks(_)
PageLinks(page) ==
    IF page = <<>> THEN <<>>
    ELSE LET s == Head(page)
         IN  (IF s.hasHref /\ ContainsDocDownload(s.href) THEN <<s.href>> ELSE <<>>)
                 \o PageLinks(Tail(page))

RECURSIVE WithoutKnown(_, _)
WithoutKnown(known, links) ==
    IF links = <<>> THEN <<>>
    ELSE IF \E i \in 1..Len(known) : known[i] = Head(links)
         THEN WithoutKnown(known, Tail(links))
         ELSE <<Head(links)>> \o WithoutKnown(Append(known, Head(links)), Tail(links))

AppendLinks_Dedup(links, pageLinks) == links \o WithoutKnown(links, pageLinks)

\* download.go:438: pdfLinks = append(pdfLinks, pageLinks...)
AppendLinks(links, pageLinks) == links \o pageLinks

AfterFindLinks_IgnoreError(failed) == "download"

\* download.go:375-378: where downloadPDFs goes when findPDFLinks has returned
AfterFindLinks(failed) == IF failed THEN "failed" ELSE "download"

\* findPDFLinks returns an error, whatever it had collected
FindLinksFails ==
    /\ dpc' = AfterFindLinks(TRUE)
    /\ result' = Result("find_links", <<>>)
    /\ trail' = trail

\* download.go:410-438: the markup of the page shown is read and its links kept
ReadPage ==
    /\ dpc = "read_page"
    /\ \E ok \in BOOLEAN :
          /\ BrowserCall(ok)
          /\ IF ok
             THEN /\ pdfLinks' = AppendLinks(pdfLinks, PageLinks(pages[shown]))
                  /\ visited' = Append(visited, shown)
                  /\ dpc' = "check_next"
                  /\ UNCHANGED <<result, trail>>
             ELSE /\ FindLinksFails
                  /\ UNCHANGED <<pdfLinks, visited>>
    /\ UNCHANGED <<shown, stuck, currentPage, clicks, jar, portalVars, waitVars,
                   getVars, pvars>>

nextPageDisabled_Inverted(control) == ~(control = "absent" \/ control = "disabled")

\* download.go:445-450: !nextBtn || nextBtn.classList.contains('ui-state-disabled')
nextPageDisabled(control) == control = "absent" \/ control = "disabled"

\* download.go:440-458: the next-page control is looked at; on the last page
\* findPDFLinks returns and the download loop is entered
CheckNextPage ==
    /\ dpc = "check_next"
    /\ \E ok \in BOOLEAN :
          /\ BrowserCall(ok)
          /\ IF ~ok
             THEN FindLinksFails
             ELSE IF nextPageDisabled(NextControl)
                  THEN /\ dpc' = AfterFindLinks(FALSE)
                       /\ trail' = Append(trail, "find_links")
                       /\ result' = result
                  ELSE dpc' = "click_next" /\ UNCHANGED <<result, trail>>
    /\ UNCHANGED <<jar, portalVars, waitVars, linkVars, getVars, pvars>>

\* download.go:459-470: the control is clicked and the table awaited.  The click
\* fails when the control is absent or the deadline has expired; it shows the
\* next page, or the same page again on a portal that sticks
ClickNextPage ==
    /\ dpc = "click_next"
    /\ \/ /\ BrowserCall(FALSE)
          /\ FindLinksFails
          /\ UNCHANGED <<shown, stuck, currentPage, clicks>>
       \/ /\ NextControl = "enabled"
          /\ BrowserCall(TRUE)
          /\ shown' = shown + 1
          /\ currentPage' = currentPage + 1
          /\ clicks' = clicks + 1
          /\ dpc' = "read_page"
          /\ UNCHANGED <<stuck, result, trail>>
       \/ /\ sticky \/ NextControl = "disabled"
          /\ stuck < MaxStuck
          /\ BrowserCall(TRUE)
          /\ stuck' = stuck + 1
          /\ currentPage' = currentPage + 1
          /\ clicks' = clicks + 1
          /\ dpc' = "read_page"
          /\ UNCHANGED <<shown, result, trail>>
    /\ UNCHANGED <<pdfLinks, visited, jar, portalVars, waitVars, getVars, pvars>>

\* strings.HasPrefix(link, "https")
HasPrefixHttps(link) == Len(link) > 0 /\ link[1] \in {"https://adpworld.adp.com"}

\* download.go:385-387
Resolve(link) == IF ~HasPrefixHttps(link) THEN <<siteURL>> \o link ELSE link

\* what can happen in downloadFile: os.Create fails; client.Get fails; the
\* status is not 200; io.Copy fails; the body is written; the server never
\* answers
FetchOutcomes ==
    {"create_error", "transport_error", "bad_status", "copy_error", "ok", "no_answer"}

\* download.go:341: client := &http.Client{Jar: jar} sets no Timeout, and
\* client.Get (download.go:488) takes no context: nothing ends a GET that is
\* not answered
clientTimeout == FALSE

downloadFile_IgnoreStatus(outcome) == outcome \notin {"ok", "bad_status"}

\* downloadFile returns an error (download.go:478-507)
downloadFile(outcome) == outcome # "ok"

\* the placeholder file after downloadFile: os.Create truncates or creates it
\* before the GET, io.Copy fills it
Written(outcome, url) ==
    CASE outcome = "ok" -> <<"body", url>>
      [] outcome = "copy_error" -> <<"partial", url>>
      [] OTHER -> <<"empty">>

\* one iteration of the loop of download.go:383-398.  A GET that is never
\* answered returns only if the client has a timeout, as a transport error
DownloadOne ==
    /\ dpc = "download"
    /\ di <= Len(pdfLinks)
    /\ LET link == Resolve(pdfLinks[di]) IN
       \E outcome \in FetchOutcomes :
          /\ IF outcome = "create_error"
             THEN UNCHANGED <<gets, disk>>
             ELSE /\ gets' = Append(gets, [pos |-> di, link |-> pdfLinks[di],
                                           url |-> link, outcome |-> outcome])
                  /\ disk' = [k \in DOMAIN disk \cup {di} |->
                                 IF k = di THEN Written(outcome, link) ELSE disk[k]]
          /\ IF outcome = "no_answer" /\ ~clientTimeout
             THEN dpc' = "get_blocked" /\ result' = result /\ di' = di
             ELSE IF downloadFile(outcome)
             THEN dpc' = "failed" /\ result' = Result("download", link) /\ di' = di
             ELSE dpc' = dpc /\ result' = result /\ di' = di + 1
    /\ UNCHANGED <<trail, runExpired, jar, portalVars, waitVars, linkVars, pvars>>

\* download.go:400: every link was fetched, downloadPDFs returns nil
DownloadDone ==
    /\ dpc = "download"
    /\ di > Len(pdfLinks)
    /\ dpc' = "done"
    /\ result' = Result("ok", <<>>)
    /\ UNCHANGED <<trail, runExpired, jar, portalVars, waitVars, linkVars, getVars,
                   pvars>>

\* no process pass is in progress
NoPass ==
    /\ fs = <<>>
    /\ pc = "off"
    /\ dryRun = FALSE
    /\ pdfFiles = <<>>
    /\ idx = 1
    /\ log = <<>>
    /\ fs0 = <<>>
    /\ passes = <<>>

\* downloadPDFs is called; the portal has pages and the browser will hold cookies
InitRun(portals, cookieLists) ==
    /\ NoPass
    /\ dpc = "navigate"
    /\ pages \in portals
    /\ lastControl \in {"absent", "disabled"}
    /\ sticky \in BOOLEAN
    /\ allCookies \in cookieLists
    /\ NoWait
    /\ runExpired = FALSE
    /\ jar = <<>>
    /\ trail = <<>>
    /\ shown = 1
    /\ stuck = 0
    /\ pdfLinks = <<>>
    /\ currentPage = 1
    /\ visited = <<>>
    /\ clicks = 0
    /\ di = 1
    /\ gets = <<>>
    /\ disk = <<>>
    /\ result = Result("none", <<>>)

\* the session cookies of the portal and a tracking cookie
UsualCookies ==
    <<BrowserCookie("SERVERSESSIONID", "s1", "adpworld.adp.com", TRUE),
      BrowserCookie("_ga", "t1", ".adp.com", FALSE),
      BrowserCookie("EMEASMSESSION", "e1", ".adp.com", TRUE)>>

InitDownload == InitRun(SeqsUpTo(PageMenu, MaxPages) \ {<<>>}, {UsualCookies})

NextDownload ==
    \/ BrowserStep
    \/ \E kind \in {"element", "text"}, valid \in BOOLEAN : WaitStart(kind, valid)
    \/ WaitCheck
    \/ WaitEvaluate
    \/ WaitSleep
    \/ InstallCookies
    \/ ReadPage
    \/ CheckNextPage
    \/ ClickNextPage
    \/ DownloadOne
    \/ DownloadDone

SpecDownload == InitDownload /\ [][NextDownload]_vars

\* the run is sequential: a run that can take a step takes one
FairSpecDownload == SpecDownload /\ WF_vars(NextDownload)

\* a portal of two pages with any cookies in the browser
InitBridge ==
    InitRun({<<<<RelativeDoc>>, <<AbsoluteDoc>>>>}, SeqsUpTo(CookieMenu, MaxCookies))

SpecBridge == InitBridge /\ [][NextDownload]_vars

\* waitForElement and waitForText called on their own, with any arguments, by
\* a caller whose context may have expired
InitWait ==
    /\ NoPass
    /\ NoRun
    /\ NoWait
    /\ runExpired \in BOOLEAN

NextWait ==
    \/ \E kind \in {"element", "text"}, valid \in BOOLEAN : WaitStart(kind, valid)
    \/ WaitCheck
    \/ WaitEvaluate
    \/ WaitSleep

SpecWait == InitWait /\ [][NextWait]_vars

----------------------------------------------------------------------------
(* Claims about the process pass *)

\* the files of a directory, by the name each had at the start
Origins(dir) == {dir[n].origin : n \in DOMAIN dir}

\* every log entry written so far, of the completed passes and the running one
AllEntries ==
    {log[i] : i \in 1..Len(log)}
        \cup UNION {{passes[k].log[i] : i \in 1..Len(passes[k].log)} : k \in 1..Len(passes)}

\* C1: in a live pass no rename replaces an existing file: every file present
\* before the pass is still present (under some name) during and after it.
C1_NoFileLost == (~dryRun) => Origins(fs0) \subseteq Origins(fs)

\* C2: a dry-run pass changes nothing in the directory: names and contents
\* after the pass (and at every step of it) are those before it.
C2_DryRunNoMutation ==
    /\ (pc = "loop" /\ dryRun) => fs = fs0
    /\ \A k \in 1..Len(passes) : passes[k].dry => passes[k].after = passes[k].before

\* a dry-run pass that logged a rename decision has completed
C2_Witness ==
    \E k \in 1..Len(passes) :
        /\ passes[k].dry
        /\ \E i \in 1..Len(passes[k].log) : passes[k].log[i].outcome = "would_rename"

\* the (source file, final new filename) decisions of a pass, in order
Decisions(entries) ==
    LET d == SelectSeq(entries, LAMBDA e : e.proposed # <<>>)
    IN  [i \in 1..Len(d) |-> <<d[i].filename, d[i].new_filename>>]

\* C3: a dry-run pass and a live pass started from the same directory log the
\* same sequence of rename decisions.
C3_SameDecisions ==
    \A j, k \in 1..Len(passes) :
        (passes[j].dry /\ ~passes[k].dry /\ passes[j].before = passes[k].before)
            => Decisions(passes[j].log) = Decisions(passes[k].log)

\* the text has the tax-certificate pattern at token i: the label, then a year
TaxAt(text, i) == i + 1 <= Len(text) /\ text[i] = TaxLabel /\ IsYear(text[i + 1])

\* the text has the label, then a month word and a year, at token i
TripleAt(text, label, i) ==
    /\ i + 2 <= Len(text)
    /\ text[i] = label
    /\ IsWord(text[i + 1])
    /\ IsYear(text[i + 2])

HasTax(text) == \E i \in 1..Len(text) : TaxAt(text, i)
HasPhrase(text, label) == \E i \in 1..Len(text) : text[i] = label
HasTriple(text, label) == \E i \in 1..Len(text) : TripleAt(text, label, i)

\* the first occurrence of the label with month and year is at i
FirstTripleAt(text, label, i) ==
    TripleAt(text, label, i) /\ \A j \in 1..(i - 1) : ~TripleAt(text, label, j)

\* the entries of files whose text was extracted
Extracted == {e \in AllEntries : e.kind # "extract_failed"}

\* C6: a text matching the tax-certificate pattern with year Y (its first
\* match) is classified as a tax certificate and named
\* "Lohnsteuerbescheinigung - Y.pdf", whatever else the text contains.
C6_TaxFirst ==
    \A e \in Extracted :
        \A i \in 1..Len(e.text) :
            (TaxAt(e.text, i) /\ \A j \in 1..(i - 1) : ~TaxAt(e.text, j))
                => /\ e.kind = "tax"
                   /\ ~e.rueck
                   /\ e.proposed = <<"Lohnsteuerbescheinigung - ", e.text[i + 1], ".pdf">>

\* a tax certificate whose text also has the payslip phrase, a billing month
\* and a correction marker was processed
C6_Witness ==
    \E e \in Extracted :
        /\ HasTax(e.text)
        /\ HasPhrase(e.text, PayLabel)
        /\ HasTriple(e.text, BillLabel) \/ HasTriple(e.text, RueckLabel)
        /\ e.kind = "tax"

\* a text the payslip rule is reached for: the payslip phrase, and neither
\* the tax-certificate pattern nor the social-insurance phrase
PayslipText(text) ==
    HasPhrase(text, PayLabel) /\ ~HasTax(text) /\ ~HasPhrase(text, SocLabel)

CorrectionName(text, i) ==
    <<"Verdienstabrechnung - ", text[i + 1], " ", text[i + 2], " - Rueckrechnung", ".pdf">>

\* C7 as stated: every payslip text with a correction marker (M2, Y2) is named
\* "Verdienstabrechnung - M2 Y2 - Rueckrechnung.pdf" and treated as a correction.
C7_AnyCorrection ==
    \A e \in Extracted :
        \A i \in 1..Len(e.text) :
            (PayslipText(e.text) /\ FirstTripleAt(e.text, RueckLabel, i))
                => e.rueck /\ e.proposed = CorrectionName(e.text, i)

\* C7, amended: a payslip text with a billing month and year and a correction
\* marker (M2, Y2) is named "Verdienstabrechnung - M2 Y2 - Rueckrechnung.pdf"
\* and treated as a correction, whatever the billing month and year are.
C7_CorrectionWithBilling ==
    \A e \in Extracted :
        \A i \in 1..Len(e.text) :
            (/\ PayslipText(e.text)
             /\ HasTriple(e.text, BillLabel)
             /\ FirstTripleAt(e.text, RueckLabel, i))
                => e.rueck /\ e.proposed = CorrectionName(e.text, i)

\* a payslip billed in one month and correcting another was processed
C7_Witness ==
    \E e \in Extracted :
        \E i, j \in 1..Len(e.text) :
            /\ PayslipText(e.text)
            /\ FirstTripleAt(e.text, BillLabel, i)
            /\ FirstTripleAt(e.text, RueckLabel, j)
            /\ <<e.text[i + 1], e.text[i + 2]>> # <<e.text[j + 1], e.text[j + 2]>>
            /\ e.rueck

\* C8: a payslip text with billing month M and year Y (its first billing
\* label) and no correction marker is named "Verdienstabrechnung - M Y.pdf"
\* and is not treated as a correction.
C8_RegularPayslip ==
    \A e \in Extracted :
        \A i \in 1..Len(e.text) :
            (/\ PayslipText(e.text)
             /\ FirstTripleAt(e.text, BillLabel, i)
             /\ ~HasTriple(e.text, RueckLabel))
                => /\ ~e.rueck
                   /\ e.kind = "payslip"
                   /\ e.proposed = <<"Verdienstabrechnung - ", e.text[i + 1], " ",
                                     e.text[i + 2], ".pdf">>

\* a regular payslip was processed
C8_Witness ==
    \E e \in Extracted :
        /\ PayslipText(e.text)
        /\ HasTriple(e.text, BillLabel)
        /\ ~HasTriple(e.text, RueckLabel)
        /\ e.outcome \in {"renamed", "would_rename"}

\* C9: ensureUniqueFilename returns the proposed path when no file is there,
\* and otherwise a different path, the proposed one with "_2" put right before
\* its extension; a dry-run step, which makes the call and no rename, leaves
\* the directory as it was.
C9_EnsureUnique ==
    [][(pc = "loop" /\ Len(log') = Len(log) + 1 /\ log'[Len(log')].proposed # <<>>)
        => LET p == log'[Len(log')].proposed
               q == log'[Len(log')].new_filename
           IN  /\ (p \notin DOMAIN fs) => q = p
               /\ (p \in DOMAIN fs) =>
                    /\ q # p
                    /\ Len(q) = Len(p) + 1
                    /\ q[Len(q)] = ".pdf"
                    /\ q[Len(q) - 1] = "_2"
                    /\ SubSeq(q, 1, Len(p) - 1) = SubSeq(p, 1, Len(p) - 1)
               /\ dryRun => fs' = fs]_vars

\* a payslip for January 2024 met an existing file of that name and was
\* given the name with "_2"
C9_Witness ==
    \E i \in 1..Len(log) :
        /\ log[i].proposed = <<"Verdienstabrechnung - ", "Januar", " ", "2024", ".pdf">>
        /\ log[i].new_filename =
               <<"Verdienstabrechnung - ", "Januar", " ", "2024", "_2", ".pdf">>

\* the path with "_2" put before its extension
Suffixed(p) == SubSeq(p, 1, Len(p) - 1) \o <<"_2", p[Len(p)]>>

C13_FailureIsolated ==
    /\ [](\A k \in 1..Len(passes) :
            /\ Len(passes[k].log) = Len(passes[k].files)
            /\ \A i \in 1..Len(passes[k].files) :
                  passes[k].log[i].filename = passes[k].files[i])
    /\ [][(pc = "loop" /\ idx <= Len(pdfFiles)) =>
            /\ pc' = "loop"
            /\ idx' = idx + 1
            /\ Len(log') = idx
            /\ log'[idx].filename = pdfFiles[idx]
            /\ (pdfFiles[idx] \notin DOMAIN fs \/ ~fs[pdfFiles[idx]].readable) =>
                  (log'[idx].outcome = "skipped" /\ fs' = fs)
            /\ log'[idx].outcome \in {"skipped", "rename_failed"} => fs' = fs]_vars

\* a live pass returned in which the first file failed (unreadable, or its
\* rename failed) and the second was renamed
C13_Witness ==
    \E k \in 1..Len(passes) :
        /\ ~passes[k].dry
        /\ Len(passes[k].log) >= 2
        /\ passes[k].log[1].outcome \in {"skipped", "rename_failed"}
        /\ passes[k].log[2].outcome = "renamed"

\* a text the social-insurance rule is reached for
SocialText(text) == HasPhrase(text, SocLabel) /\ ~HasTax(text)

\* C19: a social-insurance text (no tax-certificate match) without an
\* extractable billing month and year is left unrenamed: it is reported as a
\* social insurance certificate without period, no name is proposed, the
\* payslip rule is not applied whatever else the text holds, the directory is
\* as it was, and the loop has moved on and the pass returns.
C19_SocialWithoutPeriod ==
    /\ \A e \in Extracted :
          (SocialText(e.text) /\ ~HasTriple(e.text, BillLabel)) =>
              /\ e.kind = "social_no_period"
              /\ ~e.rueck
              /\ e.proposed = <<>>
              /\ e.new_filename = <<>>
              /\ e.outcome = "left"
    /\ \A i \in 1..Len(log) :
          log[i].kind = "social_no_period" =>
              (idx > i /\ log[i].filename \in DOMAIN fs /\ fs = fs0)
    /\ \A k \in 1..Len(passes) :
          \A i \in 1..Len(passes[k].log) :
              passes[k].log[i].kind = "social_no_period" =>
                  /\ passes[k].after = passes[k].before
                  /\ passes[k].log[i].filename \in DOMAIN passes[k].after

\* a pass returned that left a text with the social-insurance phrase, the
\* payslip phrase and a correction marker, but no billing month, unrenamed
C19_Witness ==
    \E k \in 1..Len(passes) :
        /\ ~passes[k].dry
        /\ Len(passes[k].log) = 1
        /\ LET e == passes[k].log[1]
           IN  /\ e.kind = "social_no_period"
               /\ HasPhrase(e.text, PayLabel)
               /\ HasTriple(e.text, RueckLabel)
               /\ ~HasTriple(e.text, BillLabel)

C22_RepeatedPassStable ==
    \A k \in 2..Len(passes) :
        (/\ ~passes[k - 1].dry
         /\ ~passes[k].dry
         /\ \A i \in 1..Len(passes[k].log) :
               passes[k].log[i].proposed # <<>> =>
                   passes[k].log[i].filename = passes[k].log[i].proposed)
            => DOMAIN passes[k].after = DOMAIN passes[k].before

----------------------------------------------------------------------------
(* Claims about the download run *)

\* findPDFLinks has returned its links to downloadPDFs
FindLinksReturned ==
    dpc \in {"download", "done", "get_blocked"}
        \/ (dpc = "failed" /\ result.stage = "download")

\* the anchor is a download link
IsDocLink(a) == a.hasHref /\ \E i \in 1..Len(a.href) : a.href[i] = "/AdpwAdpaWeb/DocDownload"

\* the number of download links of a page
MatchCount(page) == Cardinality({i \in 1..Len(page) : IsDocLink(page[i])})

\* the position in the page of its j-th download link
MatchIndex(page, j) ==
    CHOOSE i \in 1..Len(page) :
        IsDocLink(page[i]) /\ Cardinality({m \in 1..i : IsDocLink(page[m])}) = j

\* the number of download links of the first k pages visited
RECURSIVE MatchesBefore(_)
MatchesBefore(k) ==
    IF k = 0 THEN 0 ELSE MatchesBefore(k - 1) + MatchCount(pages[visited[k]])

\* C4: the links findPDFLinks returns are the download links of the pages
\* visited, page after page in visit order and in document order within a
\* page, one per occurrence: as many as the per-page counts add up to.
C4_PageOrderedLinks ==
    FindLinksReturned =>
        /\ Len(pdfLinks) = MatchesBefore(Len(visited))
        /\ \A k \in 1..Len(visited) :
              \A j \in 1..MatchCount(pages[visited[k]]) :
                 pdfLinks[MatchesBefore(k - 1) + j]
                     = pages[visited[k]][MatchIndex(pages[visited[k]], j)].href

\* links were returned from several pages and one link occurs twice in them
C4_Witness ==
    /\ FindLinksReturned
    /\ Len(visited) >= 2
    /\ \E i, j \in 1..Len(pdfLinks) : i < j /\ pdfLinks[i] = pdfLinks[j]
    /\ \E i \in 1..Len(pdfLinks) : pdfLinks[i] # pdfLinks[1]

\* C5 as stated: on a portal whose clicks always advance, findPDFLinks returns
\* after as many page advances as there are pages.
C5_AdvancesEqualPages == (~sticky /\ FindLinksReturned) => clicks = Len(pages)

\* C5, amended: on a portal whose clicks always advance, findPDFLinks ends
\* (it returns its links or an error), and when it returns its links it has
\* read each of the N pages once and advanced N - 1 times.
C5_AdvancesOneLess ==
    (~sticky) =>
        /\ <>(dpc \in {"download", "done", "failed"})
        /\ [](FindLinksReturned =>
                /\ clicks = Len(pages) - 1
                /\ currentPage = Len(pages)
                /\ visited = [k \in 1..Len(pages) |-> k])

\* the links of a portal of several pages were returned
C5_Witness ==
    ~sticky /\ FindLinksReturned /\ Len(pages) >= 2 /\ clicks = Len(pages) - 1

\* C10: the links are fetched in sequence order, each at most once; no GET
\* follows a GET that ended in a transport error or a non-success status, and
\* after such a GET downloadPDFs has returned an error naming that link.
C10_FirstFailureAborts ==
    /\ \A k \in 1..Len(gets) : gets[k].pos = k /\ gets[k].link = pdfLinks[k]
    /\ \A k \in 1..(Len(gets) - 1) :
          gets[k].outcome \notin {"transport_error", "bad_status"}
    /\ \A k \in 1..Len(gets) :
          gets[k].outcome \in {"transport_error", "bad_status"} =>
              /\ dpc = "failed"
              /\ result.stage = "download"
              /\ result.link = gets[k].url
              /\ gets[k].url \in {pdfLinks[k], <<"https://adpworld.adp.com">> \o pdfLinks[k]}

\* the second GET got a non-success status and the links after it were not fetched
C10_Witness ==
    /\ dpc = "failed"
    /\ Len(gets) = 2
    /\ gets[1].outcome = "ok"
    /\ gets[2].outcome = "bad_status"
    /\ Len(pdfLinks) > 2

----------------------------------------------------------------------------
(* Claims about the session bridge *)

\* the jar of the client has been given its cookies
CookiesInstalled == \E k \in 1..Len(trail) : trail[k] = "install_cookies"

\* the name is on the allow-list of the bridge
AllowListed(name) ==
    name \in {"BIGipServer_DE1_world-v2", "SERVERSESSIONID", "JSESSIONIDSSO",
              "EMEASMSESSION"}

\* the positions of the browser's cookies whose name is allow-listed
AllowedAt == {i \in 1..Len(allCookies) : AllowListed(allCookies[i].name)}

\* C11: the cookies installed into the client are exactly the browser's cookies
\* whose name is allow-listed, each with its name, value and domain; no cookie
\* of another name is ever installed; before the bridge the client holds no
\* cookie and after it the bridge does not change what it installed.
C11_OnlyAllowListedCookies ==
    /\ \A j \in 1..Len(jar) : AllowListed(jar[j].name)
    /\ ~CookiesInstalled => jar = <<>>
    /\ CookiesInstalled =>
          /\ Len(jar) = Cardinality(AllowedAt)
          /\ \A j \in 1..Len(jar) :
                \E i \in AllowedAt :
                   /\ Cardinality({k \in AllowedAt : k < i}) = j - 1
                   /\ jar[j] = [name |-> allCookies[i].name,
                                value |-> allCookies[i].value,
                                domain |-> allCookies[i].domain]

\* files were fetched with a client that was given one of the browser's two
\* cookies, the other being one of another name
C11_Witness ==
    /\ dpc = "done"
    /\ gets # <<>>
    /\ Len(allCookies) = 2
    /\ Len(jar) = 1
    /\ \E i \in 1..2 : allCookies[i].name = "jsessionidsso"

\* the steps of a run in their order: the browser-driven steps, the session
\* bridge, the collection of the links over all pages
StepsInOrder ==
    <<"navigate", "wait_username", "input_username", "wait_password", "input_password",
      "wait_dashboard", "open_documents", "get_cookies", "install_cookies", "find_links">>

\* C12: no GET is issued and no placeholder file is written unless every step
\* before the downloads has succeeded, in order; the steps succeed in that
\* order only; and a run that failed at one of them, be it on a later listing
\* page with links already collected, returned the error of that step with no
\* GET issued and no file written.
C12_NoDownloadUnlessAllSteps ==
    /\ Len(trail) <= Len(StepsInOrder)
    /\ \A k \in 1..Len(trail) : trail[k] = StepsInOrder[k]
    /\ (gets # <<>> \/ DOMAIN disk # {}) => trail = StepsInOrder
    /\ (dpc = "failed" /\ result.stage # "download") =>
          /\ Len(trail) < Len(StepsInOrder)
          /\ result.stage = StepsInOrder[Len(trail) + 1]
          /\ gets = <<>>
          /\ DOMAIN disk = {}

\* the run failed on the second listing page, after links of the first were kept
C12_Witness ==
    /\ dpc = "failed"
    /\ result.stage = "find_links"
    /\ clicks >= 1
    /\ pdfLinks # <<>>
    /\ gets = <<>>
    /\ DOMAIN disk = {}

----------------------------------------------------------------------------
(* Claims about the readiness waits *)

\* a wait called by downloadPDFs is in progress
WaitingInRun ==
    dpc \in {"wait_username", "wait_password", "wait_dashboard"} /\ wpc # "idle"

\* C14: when the deadline of the run has expired during a wait of downloadPDFs,
\* the deadline check of the wait returns the timeout error without another
\* evaluation, an evaluation in flight at the expiry ends the wait with the
\* timeout error, a sleep in progress is followed by the deadline check only;
\* downloadPDFs then has failed at that step, with no later step performed, and
\* a failed run takes no further step.
C14_RunDeadlineEndsWait ==
    /\ [][(WaitingInRun /\ wpc = "check" /\ runExpired) =>
            /\ wres' = "timeout"
            /\ polls' = polls
            /\ dpc' = "failed"
            /\ result' = [stage |-> dpc, link |-> <<>>]
            /\ trail' = trail]_vars
    /\ [][(WaitingInRun /\ wpc = "eval" /\ runExpired') =>
            /\ wres' = "timeout"
            /\ dpc' = "failed"
            /\ result' = [stage |-> dpc, link |-> <<>>]
            /\ trail' = trail]_vars
    /\ [][(WaitingInRun /\ wpc = "sleep" /\ runExpired') =>
            (wpc' = "check" /\ polls' = polls /\ dpc' = dpc /\ trail' = trail)]_vars
    /\ [][dpc = "failed" => UNCHANGED vars]_vars

\* the deadline of the run expired during the wait for the password field,
\* before the wait's own timeout, and the run failed there
C14_Witness ==
    /\ dpc = "failed"
    /\ result.stage = "wait_password"
    /\ runExpired
    /\ ~waitExpired
    /\ wres = "timeout"
    /\ polls >= 1
    /\ trail = <<"navigate", "wait_username", "input_username">>
    /\ gets = <<>>

----------------------------------------------------------------------------
(* Claims about the termination of a run *)

\* C15: every run ends, with success or with an error, whatever the page shows
\* and whether or not the server answers a GET.
C15_RunTerminates == <>(dpc \in {"done", "failed"})

\* C16: an evaluation that ends with the deadline-exceeded error ends the wait
\* with the timeout error, the result the deadline check gives; an evaluation
\* that ends with any other error does not end the wait: the loop sleeps one
\* interval, checks the deadline and, unless it is reached, evaluates again.
C16_EvaluationErrors ==
    /\ [][(wpc = "eval" /\ lastEval' = "deadline") =>
            (wpc' = "idle" /\ wres' = "timeout")]_vars
    /\ [][(wpc = "check" /\ (waitExpired \/ runExpired)) =>
            (wpc' = "idle" /\ wres' = "timeout")]_vars
    /\ [][(wpc = "eval" /\ lastEval' = "error") =>
            (wpc' = "sleep" /\ wres' = "none")]_vars
    /\ [][wpc = "sleep" => (wpc' = "check" /\ wres' = "none" /\ polls' = polls)]_vars
    /\ [][(wpc = "check" /\ ~(waitExpired \/ runExpired)) =>
            (wpc' = "eval" /\ wres' = "none")]_vars

\* an evaluation failed with an error of the browser and the condition is
\* being evaluated again
C16_Witness == wpc = "eval" /\ lastEval = "error" /\ polls >= 1 /\ wres = "none"

\* C17: a wait returns success only from an evaluation that ended without
\* error and observed the condition true; the deadline check, once it fires,
\* returns the timeout error; every call returns exactly one of success, the
\* timeout error and, for waitForText whose pattern does not compile, the
\* invalid-pattern error, that one before any evaluation.
C17_WaitResults ==
    /\ [](wres \in {"none", "ok", "timeout", "invalid"})
    /\ [](wpc # "idle" => wres = "none")
    /\ []((wpc = "idle" /\ wres = "none") => (polls = 0 /\ lastEval = "none"))
    /\ [](wres = "ok" => (lastEval = "true" /\ polls >= 1))
    /\ [](wres = "invalid" => (wkind = "text" /\ ~wvalid /\ polls = 0))
    /\ []((wkind = "text" /\ ~wvalid) => (wpc = "idle" /\ wres = "invalid"))
    /\ [][(wpc = "check" /\ (waitExpired \/ runExpired)) =>
            (wpc' = "idle" /\ wres' = "timeout")]_vars
    /\ [][(wpc # "idle" /\ wpc' = "idle") => wres' \in {"ok", "timeout"}]_vars
    /\ [][(wres # "ok" /\ wres' = "ok") =>
            (wpc = "eval" /\ lastEval' = "true" /\ ~waitExpired /\ ~runExpired)]_vars

\* a wait returned success at its second evaluation
C17_Witness == wpc = "idle" /\ wres = "ok" /\ polls = 2

----------------------------------------------------------------------------
(* Claims about the download loop *)

\* the link has a scheme and a host of its own
IsAbsolute(link) ==
    Len(link) > 0 /\ link[1] \in {"https://adpworld.adp.com", "http://adpworld.adp.com"}

\* C21: every link is fetched at its absolute form: an absolute link, whatever
\* its scheme, unchanged, and a link that is not absolute with the origin of
\* the portal put before it.
C21_ResolvedToAbsolute ==
    \A k \in 1..Len(gets) :
        /\ IsAbsolute(gets[k].link) => gets[k].url = gets[k].link
        /\ ~IsAbsolute(gets[k].link) =>
              gets[k].url = <<"https://adpworld.adp.com">> \o gets[k].link

\* C23: when downloadPDFs has returned, the placeholder files in the
\* destination are those of the positions whose GET returned a success
\* status: no file is there for a position whose fetch failed with a transport
\* error or a non-success status, and a file at position i holds what the GET
\* of the i-th link delivered.
C23_FilesOnlyForSuccess ==
    dpc \in {"done", "failed"} =>
        \A i \in DOMAIN disk :
            \E k \in 1..Len(gets) :
                /\ gets[k].pos = i
                /\ gets[k].outcome \in {"ok", "copy_error"}
                /\ disk[i][Len(disk[i])] = gets[k].url

====
